---------------------------- MODULE Spec2Model ----------------------------
(***************************************************************************)
(* Model of the soil-analysis statistics service (src/main.py): the        *)
(* reference table VALORES_REFERENCIA, the classifier interpretar_valor,   *)
(* the two per-municipio report functions and the catalog listing.         *)
(*                                                                         *)
(* Numbers.  Measurements and thresholds are decimal values with at most   *)
(* two decimals; the model stores them in hundredths (5.5 is 550).         *)
(* A computed float is a record [nan, num, den]: NaN, or the exact         *)
(* rational num/den (in hundredths, den > 0, lowest terms).  Rounding of   *)
(* binary floating point is not modelled.                                  *)
(*                                                                         *)
(* Data.  The table's identity columns (municipio_id_FK, municipio) are    *)
(* non-null and compared exactly; nothing forces them to be in one-to-one  *)
(* correspondence.  A measurement cell is a finite number or NULL.  A      *)
(* column listed in no_numericas makes the computation on it raise.        *)
(* A municipio name is a sequence of characters.                           *)
(***************************************************************************)
EXTENDS Integers, Sequences, FiniteSets, TLC

VARIABLES
    valores_referencia,  \* the module-level dict VALORES_REFERENCIA
    tabla,               \* rows of analisis_quimicos_validados
    no_numericas,        \* columns whose stored values are not numeric
    pc,                  \* position of the request being served
    modo,                \* which handler serves the request
    campo,               \* filter column of the request
    valor,               \* filter value of the request
    connection,          \* the local variable `connection`
    df,                  \* rows read by the first query
    info,                \* the row read by the LIMIT 1 query
    resultado,           \* value returned to the caller
    error,               \* exception leaving the handler
    anterior,            \* the previous answered request and its answer
    cl_parametro,        \* classifier input: parameter
    cl_valor,            \* classifier input: value
    cl_resultado,        \* classifier output
    serie,               \* aggregator input: one column of a data frame
    resumen              \* aggregator output: the column's leaf

vars == <<valores_referencia, tabla, no_numericas, pc, modo, campo, valor,
          connection, df, info, resultado, error, anterior,
          cl_parametro, cl_valor, cl_resultado, serie, resumen>>

peticion_vars == <<tabla, no_numericas, pc, modo, campo, valor, connection,
                   df, info, resultado, error, anterior>>
clasif_vars == <<cl_parametro, cl_valor, cl_resultado>>
resumen_vars == <<serie, resumen>>

\* Python's None, and SQL NULL / pandas NaN in a data frame cell.
None == <<>>
NULL == <<>>
\* The empty dict {}.
DictVacio == <<>>
\* A cell holding the number v (hundredths).
Celda(v) == <<v>>

---------------------------------------------------------------------------
\* Exact arithmetic standing for Python floats.

Abs(x) == IF x < 0 THEN -x ELSE x

RECURSIVE MCD(_, _)
MCD(a, b) == IF b = 0 THEN a ELSE MCD(b, a % b)

\* The float num/den (den > 0), in lowest terms.
Real(num, den) ==
    LET g == MCD(Abs(num), den)
    IN  [nan |-> FALSE, num |-> num \div g, den |-> den \div g]

\* float('nan')
NaN == [nan |-> TRUE, num |-> 0, den |-> 1]

\* x <= t and x >= t for a float x and a threshold t given in hundredths.
MenorIgual(x, t) == x.num <= t * x.den
MayorIgual(x, t) == x.num >= t * x.den

---------------------------------------------------------------------------
\* The reference table, thresholds in hundredths.

\* A table entry with the mid band's two thresholds exchanged.
Rango_desordenado(bmax, bdesc, mmin, mmax, mdesc, amin, adesc) ==
    [bajo  |-> [max |-> bmax, descripcion |-> bdesc],
     medio |-> [min |-> mmax, max |-> mmin, descripcion |-> mdesc],
     alto  |-> [min |-> amin, descripcion |-> adesc]]

Rango(bmax, bdesc, mmin, mmax, mdesc, amin, adesc) ==
    [bajo  |-> [max |-> bmax, descripcion |-> bdesc],
     medio |-> [min |-> mmin, max |-> mmax, descripcion |-> mdesc],
     alto  |-> [min |-> amin, descripcion |-> adesc]]

VALORES_REFERENCIA ==
    [ph           |-> Rango(550, "acido", 600, 700, "optimo", 750, "alcalino"),
     mo           |-> Rango(200, "< 2%", 200, 400, "2-4%", 400, "> 4%"),
     n_inorganico |-> Rango(1500, "< 15 mg/kg", 1600, 2900, "16-29 mg/kg",
                            3000, "> 30 mg/kg"),
     fosforo      |-> Rango(2000, "< 20 mg/kg", 2000, 4000, "20-40 mg/kg",
                            4000, "> 40 mg/kg"),
     k            |-> Rango(30, "< 0.3 cmol/kg", 30, 60, "0.3-0.6 cmol/kg",
                            60, "> 0.6 cmol/kg"),
     mg           |-> Rango(20, "< 0.2 cmol/kg", 20, 50, "0.2-0.5 cmol/kg",
                            50, "> 0.5 cmol/kg"),
     ca           |-> Rango(200, "< 2 cmol/kg", 200, 500, "2-5 cmol/kg",
                            500, "> 5 cmol/kg"),
     azufre       |-> Rango(1000, "< 10 mg/kg", 1000, 2000, "10-20 mg/kg",
                            2000, "> 20 mg/kg"),
     hierro       |-> Rango(1000, "< 10 mg/kg", 1000, 4000, "10-40 mg/kg",
                            4000, "> 40 mg/kg"),
     cobre        |-> Rango(50, "< 0.5 mg/kg", 50, 100, "0.5-1 mg/kg",
                            100, "> 1 mg/kg"),
     zinc         |-> Rango(100, "< 1 mg/kg", 100, 300, "1-3 mg/kg",
                            300, "> 3 mg/kg"),
     manganeso    |-> Rango(500, "< 5 mg/kg", 500, 2000, "5-20 mg/kg",
                            2000, "> 20 mg/kg"),
     boro         |-> Rango(50, "< 0.5 mg/kg", 50, 100, "0.5-1 mg/kg",
                            100, "> 1 mg/kg"),
     cic          |-> Rango(1000, "suelo pobre", 1000, 2500, "normal",
                            2500, "suelo rico")]

\* list(VALORES_REFERENCIA.keys()), in insertion order.
columnas_interpretacion ==
    <<"ph", "mo", "n_inorganico", "fosforo", "k", "mg", "ca", "azufre",
      "hierro", "cobre", "zinc", "manganeso", "boro", "cic">>

columnas_estadisticas ==
    <<"arcilla", "limo", "arena", "da", "ph", "mo", "fosforo",
      "n_inorganico", "k", "mg", "ca", "na", "al", "cic",
      "cic_calculada", "h", "azufre", "hierro", "cobre",
      "zinc", "manganeso", "boro", "ca_mg", "mg_k", "ca_k",
      "ca_mg_k", "k_mg">>

Rango_de(s) == {s[i] : i \in 1..Len(s)}

---------------------------------------------------------------------------
\* The classifier.

Etiqueta(v, interp, nivel, desc) ==
    [valor |-> v, interpretacion |-> interp, nivel |-> nivel,
     descripcion |-> desc]

\* interpretar_valor with the low-band test strict (a boundary slip).
interpretar_valor_estricto(parametro, v) ==
    IF parametro \notin DOMAIN valores_referencia
    THEN Etiqueta(v, "No hay referencia disponible", "sin_referencia",
                  "Parametro sin valores de referencia definidos")
    ELSE LET ref == valores_referencia[parametro]
         IN  IF "max" \in DOMAIN ref.bajo /\ ~MayorIgual(v, ref.bajo.max)
             THEN Etiqueta(v, "BAJO", "bajo", ref.bajo.descripcion)
             ELSE IF "min" \in DOMAIN ref.alto /\ MayorIgual(v, ref.alto.min)
             THEN Etiqueta(v, "ALTO", "alto", ref.alto.descripcion)
             ELSE IF /\ "medio" \in DOMAIN ref
                     /\ "min" \in DOMAIN ref.medio
                     /\ "max" \in DOMAIN ref.medio
                     /\ MayorIgual(v, ref.medio.min)
                     /\ MenorIgual(v, ref.medio.max)
             THEN Etiqueta(v, "MEDIO", "medio", ref.medio.descripcion)
             ELSE Etiqueta(v, "FUERA DE RANGO", "fuera_rango",
                           "Valor no se encuentra en los rangos definidos")

interpretar_valor(parametro, v) ==
    IF parametro \notin DOMAIN valores_referencia
    THEN Etiqueta(v, "No hay referencia disponible", "sin_referencia",
                  "Parametro sin valores de referencia definidos")
    ELSE LET ref == valores_referencia[parametro]
         IN  IF "max" \in DOMAIN ref.bajo /\ MenorIgual(v, ref.bajo.max)
             THEN Etiqueta(v, "BAJO", "bajo", ref.bajo.descripcion)
             ELSE IF "min" \in DOMAIN ref.alto /\ MayorIgual(v, ref.alto.min)
             THEN Etiqueta(v, "ALTO", "alto", ref.alto.descripcion)
             ELSE IF /\ "medio" \in DOMAIN ref
                     /\ "min" \in DOMAIN ref.medio
                     /\ "max" \in DOMAIN ref.medio
                     /\ MayorIgual(v, ref.medio.min)
                     /\ MenorIgual(v, ref.medio.max)
             THEN Etiqueta(v, "MEDIO", "medio", ref.medio.descripcion)
             ELSE Etiqueta(v, "FUERA DE RANGO", "fuera_rango",
                           "Valor no se encuentra en los rangos definidos")

---------------------------------------------------------------------------
\* The aggregator: pandas / scipy operations on one column.

\* Series.dropna(): the non-missing values, in their original order.
RECURSIVE dropna(_)
dropna(col) ==
    IF col = <<>> THEN <<>>
    ELSE IF Head(col) = NULL THEN dropna(Tail(col))
    ELSE <<Head(col)[1]>> \o dropna(Tail(col))

RECURSIVE Suma(_)
Suma(s) == IF s = <<>> THEN 0 ELSE Head(s) + Suma(Tail(s))

RECURSIVE SumaCuadrados(_)
SumaCuadrados(s) ==
    IF s = <<>> THEN 0 ELSE Head(s) * Head(s) + SumaCuadrados(Tail(s))

RECURSIVE Insertar(_, _)
Insertar(x, s) ==
    IF s = <<>> THEN <<x>>
    ELSE IF x <= Head(s) THEN <<x>> \o s
    ELSE <<Head(s)>> \o Insertar(x, Tail(s))

RECURSIVE Ordenar(_)
Ordenar(s) == IF s = <<>> THEN <<>> ELSE Insertar(Head(s), Ordenar(Tail(s)))

Minimo(S) == CHOOSE x \in S : \A y \in S : x <= y
Maximo(S) == CHOOSE x \in S : \A y \in S : x >= y

Cuenta(datos, x) == Cardinality({i \in 1..Len(datos) : datos[i] = x})

\* A mode that breaks ties by first occurrence instead of by value.
stats_mode_primera(datos) ==
    LET maxc == Maximo({Cuenta(datos, x) : x \in Rango_de(datos)})
        i == Minimo({j \in 1..Len(datos) : Cuenta(datos, datos[j]) = maxc})
    IN  [mode |-> datos[i], count |-> maxc]

\* scipy.stats.mode: the most frequent value and its count; when several
\* values share the highest count, the smallest of them.
stats_mode(datos) ==
    LET maxc == Maximo({Cuenta(datos, x) : x \in Rango_de(datos)})
    IN  [mode  |-> Minimo({x \in Rango_de(datos) : Cuenta(datos, x) = maxc}),
         count |-> maxc]

\* The mode with the smallest value reported whenever nothing repeats
\* (using scipy's result unconditionally).
Moda_sin_respaldo(datos) == Real(stats_mode(datos).mode, 1)

Moda(datos) ==
    IF Len(datos) > 1
    THEN LET moda_result == stats_mode(datos)
         IN  IF moda_result.count > 1 THEN Real(moda_result.mode, 1)
             ELSE Real(datos[1], 1)
    ELSE Real(datos[1], 1)

\* Series.median(): middle value, or the average of the two middle values.
Mediana(datos) ==
    LET s == Ordenar(datos)
        n == Len(s)
    IN  IF n % 2 = 1 THEN Real(s[(n + 1) \div 2], 1)
        ELSE Real(s[n \div 2] + s[n \div 2 + 1], 2)

\* Series.mean()
Media(datos) == Real(Suma(datos), Len(datos))

\* Series.std(): ddof = 1, the square root of
\* sum((x - mean)^2) / (n - 1); NaN when n - 1 = 0.
Desviacion(datos) ==
    LET n == Len(datos)
    IN  IF n < 2 THEN NaN
        ELSE [nan |-> FALSE,
              raiz_de |-> Real(n * SumaCuadrados(datos)
                                 - Suma(datos) * Suma(datos), n * (n - 1))]

\* Series.skew(): NaN below three samples, 0 for a constant sample, else
\* the adjusted Fisher-Pearson coefficient of the sample (kept symbolic:
\* it depends on the values only, not on their order).
Sesgo(datos) ==
    IF Len(datos) < 3 THEN NaN
    ELSE IF Cardinality(Rango_de(datos)) = 1 THEN Real(0, 1)
    ELSE [nan |-> FALSE, sesgo_de |-> Ordenar(datos)]

\* Series.quantile(k/4): linear interpolation between order statistics.
Cuantil(datos, k) ==
    LET s == Ordenar(datos)
        pos == (Len(s) - 1) * k
        i == pos \div 4 + 1
        r == pos % 4
    IN  IF r = 0 THEN Real(s[i], 1)
        ELSE Real(4 * s[i] + r * (s[i + 1] - s[i]), 4)

\* try: cuerpo / except Exception: manejador, with the handler re-raising.
Intentar_sin_captura(falla, cuerpo, manejador) ==
    IF falla THEN [propaga |-> TRUE, hoja |-> manejador]
    ELSE [propaga |-> FALSE, hoja |-> cuerpo]

\* try: cuerpo / except Exception: manejador.  `falla` says whether the
\* body raises; no exception leaves the statement.
Intentar(falla, cuerpo, manejador) ==
    IF falla THEN [propaga |-> FALSE, hoja |-> manejador]
    ELSE [propaga |-> FALSE, hoja |-> cuerpo]

\* The statistics leaf with missing entries kept in the sample.
EstadisticasDeColumna_sin_dropna(col, falla) ==
    LET datos == [i \in 1..Len(col) |->
                     IF col[i] = NULL THEN 0 ELSE col[i][1]]
    IN  IF Len(datos) > 0
        THEN Intentar(falla,
                 [moda |-> Moda(datos), mediana |-> Mediana(datos),
                  media |-> Media(datos), sesgo |-> Sesgo(datos),
                  desviacion_estandar |-> Desviacion(datos),
                  maximo |-> Real(Maximo(Rango_de(datos)), 1),
                  minimo |-> Real(Minimo(Rango_de(datos)), 1),
                  count |-> Len(datos),
                  q1 |-> Cuantil(datos, 1), q3 |-> Cuantil(datos, 3)],
                 [error |-> "No se pudieron calcular estadisticas"])
        ELSE [propaga |-> FALSE,
              hoja |-> [mensaje |->
                         "No hay datos validos para calcular estadisticas"]]

\* Body of the loop of obtener_estadisticas_municipio for one column.
EstadisticasDeColumna(col, falla) ==
    LET datos == dropna(col)
    IN  IF Len(datos) > 0
        THEN Intentar(falla,
                 [moda |-> Moda(datos), mediana |-> Mediana(datos),
                  media |-> Media(datos), sesgo |-> Sesgo(datos),
                  desviacion_estandar |-> Desviacion(datos),
                  maximo |-> Real(Maximo(Rango_de(datos)), 1),
                  minimo |-> Real(Minimo(Rango_de(datos)), 1),
                  count |-> Len(datos),
                  q1 |-> Cuantil(datos, 1), q3 |-> Cuantil(datos, 3)],
                 [error |-> "No se pudieron calcular estadisticas"])
        ELSE [propaga |-> FALSE,
              hoja |-> [mensaje |->
                         "No hay datos validos para calcular estadisticas"]]

\* Body of the loop of obtener_interpretacion_municipio for one parameter.
InterpretacionDeColumna(parametro, col, falla) ==
    LET datos == dropna(col)
    IN  IF Len(datos) > 0
        THEN LET mediana == Mediana(datos)
                 interpretacion == interpretar_valor(parametro, mediana)
             IN  Intentar(falla,
                     [mediana |-> mediana,
                      interpretacion |-> interpretacion.interpretacion,
                      nivel |-> interpretacion.nivel,
                      descripcion |-> interpretacion.descripcion,
                      muestras_validas |-> Len(datos)],
                     [error |-> "No se pudo interpretar",
                      mediana |-> None])
        ELSE [propaga |-> FALSE,
              hoja |-> [mensaje |-> "No hay datos validos",
                        mediana |-> None]]

---------------------------------------------------------------------------
\* The database table analisis_quimicos_validados, as the service finds it.
\* Identity columns are non-null; a measurement cell is a number or NULL.

MaxFilas == 2

Ids == {1, 2}
\* Municipio names as character sequences, listed in collation order.
Nombres == << <<"A">>, <<"B", " ", "C">> >>

\* Measurement columns of one row: every non-missing cell holds v.
FilaDatos(v, nulas) ==
    [c \in Rango_de(columnas_estadisticas) |->
        IF c \in nulas THEN NULL ELSE Celda(v)]

Filas ==
    {[municipio_id_FK |-> i, municipio |-> n, datos |-> d] :
        i \in Ids, n \in Rango_de(Nombres),
        d \in {FilaDatos(720, {}), FilaDatos(550, {"ph", "arcilla"})}}

Tablas == UNION {[1..n -> Filas] : n \in 0..MaxFilas}

\* Columns that may hold non-numeric values.
Corrupciones == {{}, {"mo", "limo"}}

\* WHERE {campo} = %s
Coincide(fila, c, v) ==
    IF c = "municipio_id_FK" THEN fila.municipio_id_FK = v
    ELSE fila.municipio = v

RECURSIVE Donde(_, _, _)
\* The rows a query ... WHERE {campo} = valor returns, in table order.
Donde(t, c, v) ==
    IF t = <<>> THEN <<>>
    ELSE (IF Coincide(Head(t), c, v) THEN <<Head(t)>> ELSE <<>>)
             \o Donde(Tail(t), c, v)

\* SELECT {columnas}: the data frame pd.read_sql builds from the rows.
Seleccionar(filas, columnas) ==
    [i \in 1..Len(filas) |->
        [col \in Rango_de(columnas) |-> filas[i].datos[col]]]

\* df[columna]
Columna(frame, c) == [i \in 1..Len(frame) |-> frame[i][c]]

ColumnasDe(m) ==
    IF m = "interpretacion" THEN columnas_interpretacion
    ELSE columnas_estadisticas

ClaveHojas(m) ==
    IF m = "interpretacion" THEN "interpretaciones" ELSE "estadisticas"

---------------------------------------------------------------------------
\* Results built by the handlers.

\* The `if df.empty` result with both identity fields filled in.
SinDatos_ambos(m, c, v) ==
    [municipio_id |-> v, municipio_nombre |-> v,
     mensaje |-> "No hay datos para este municipio"]
        @@ (ClaveHojas(m) :> DictVacio)

\* The `if df.empty` result: only the identifier the caller supplied.
SinDatos(m, c, v) ==
    (IF c = "municipio_id_FK" THEN [municipio_id |-> v]
     ELSE [municipio_nombre |-> v])
        @@ [mensaje |-> "No hay datos para este municipio"]
        @@ (ClaveHojas(m) :> DictVacio)

\* One iteration of the per-column loop.
HojaDe(m, frame, c, corruptas) ==
    IF m = "interpretacion"
    THEN InterpretacionDeColumna(c, Columna(frame, c), c \in corruptas)
    ELSE EstadisticasDeColumna(Columna(frame, c), c \in corruptas)

\* The report dict returned for a non-empty data frame.
Informe(m, frame, fila_info, corruptas) ==
    [municipio_id |-> fila_info.municipio_id_FK,
     municipio_nombre |-> fila_info.municipio,
     total_registros |-> Len(frame)]
        @@ (ClaveHojas(m) :>
               [c \in Rango_de(ColumnasDe(m)) |->
                   HojaDe(m, frame, c, corruptas).hoja])

\* HTTPException(status_code=500, detail=...)
HTTPException(detail, causa) ==
    [tipo |-> "HTTPException", status_code |-> 500, detail |-> detail,
     causa |-> causa]

\* What leaves a report handler when exception `clase` is raised inside
\* its try block: both except clauses turn it into an HTTPException.
ErrorInforme(clase, causa) ==
    IF clase = "Error" THEN HTTPException("Database error", causa)
    ELSE HTTPException("Error", causa)

\* What leaves get_estadisticas_todos_municipios: only mysql's Error is
\* caught, anything else propagates unchanged.
ErrorCatalogo(clase, causa) ==
    IF clase = "Error" THEN HTTPException("Database error", causa)
    ELSE [tipo |-> clase, status_code |-> 500, detail |-> "", causa |-> causa]

\* The finally block without the close() call.
Liberar_sin_cerrar(c) == c

\* finally: if connection and connection.is_connected(): connection.close()
Liberar(c) == IF c # "None" /\ c = "abierta" THEN "cerrada" ELSE c

\* municipio_nombre.replace(' ', '%20')
Escapar(nombre) ==
    [i \in DOMAIN nombre |-> IF nombre[i] = " " THEN "%20" ELSE nombre[i]]

Posicion(n) == CHOOSE i \in 1..Len(Nombres) : Nombres[i] = n

\* SELECT DISTINCT municipio_id_FK, municipio ... ORDER BY municipio: every
\* listing of the distinct pairs that is ascending by name.
Listados(t) ==
    LET P == {<<t[i].municipio_id_FK, t[i].municipio>> : i \in 1..Len(t)}
        n == Cardinality(P)
    IN  {s \in [1..n -> P] :
            /\ \A i, j \in 1..n : i # j => s[i] # s[j]
            /\ \A i, j \in 1..n :
                  i < j => Posicion(s[i][2]) <= Posicion(s[j][2])}

EntradaCatalogo(par) ==
    [municipio_id |-> par[1],
     municipio_nombre |-> par[2],
     estadisticas_por_id_url |-> <<"/estadisticas/municipio/", par[1]>>,
     estadisticas_por_nombre_url |->
         <<"/estadisticas/municipio/nombre/", Escapar(par[2])>>,
     interpretacion_por_id_url |-> <<"/interpretacion/municipio/", par[1]>>,
     interpretacion_por_nombre_url |->
         <<"/interpretacion/municipio/nombre/", Escapar(par[2])>>]

Catalogo(listado) ==
    [total_municipios |-> Len(listado),
     municipios |-> [i \in DOMAIN listado |-> EntradaCatalogo(listado[i])]]

---------------------------------------------------------------------------
\* The request handlers.  One request is served at a time; its local
\* variables are pc .. error.

Modos == {"interpretacion", "estadisticas"}
Clases == {"Error", "Exception"}

Reposo ==
    /\ pc = "idle" /\ modo = "ninguno" /\ campo = "ninguno" /\ valor = None
    /\ connection = "None" /\ df = <<>> /\ info = None
    /\ resultado = None /\ error = None

\* get_*_municipio_por_id / get_*_municipio_por_nombre calling
\* obtener_*_municipio(campo, valor): connection = None.
IniciarInforme(m, c, v) ==
    /\ pc = "idle"
    /\ pc' = "conectar" /\ modo' = m /\ campo' = c /\ valor' = v
    /\ connection' = "None" /\ df' = <<>> /\ info' = None
    /\ resultado' = None /\ error' = None
    /\ UNCHANGED <<valores_referencia, tabla, no_numericas, anterior,
                   clasif_vars, resumen_vars>>

\* get_estadisticas_todos_municipios: connection = None.
IniciarCatalogo ==
    /\ pc = "idle"
    /\ pc' = "conectar" /\ modo' = "catalogo"
    /\ campo' = "ninguno" /\ valor' = None
    /\ connection' = "None" /\ df' = <<>> /\ info' = None
    /\ resultado' = None /\ error' = None
    /\ UNCHANGED <<valores_referencia, tabla, no_numericas, anterior,
                   clasif_vars, resumen_vars>>

ErrorDe(m, clase, causa) ==
    IF m = "catalogo" THEN ErrorCatalogo(clase, causa)
    ELSE ErrorInforme(clase, causa)

\* connection = get_db_connection() returns an open connection.
Conectar ==
    /\ pc = "conectar"
    /\ connection' = "abierta"
    /\ pc' = "consulta"
    /\ UNCHANGED <<valores_referencia, tabla, no_numericas, modo, campo,
                   valor, df, info, resultado, error, anterior,
                   clasif_vars, resumen_vars>>

\* get_db_connection() raises: mysql's Error becomes an HTTPException
\* inside it; `connection` stays None.
ConectarFalla ==
    /\ pc = "conectar"
    /\ error' = ErrorDe(modo, "Exception", "conexion")
    /\ pc' = "finally"
    /\ UNCHANGED <<valores_referencia, tabla, no_numericas, modo, campo,
                   valor, connection, df, info, resultado, anterior,
                   clasif_vars, resumen_vars>>

\* A query raises `clase`; the server may have dropped the connection
\* (is_connected() then answers False).
ConsultaFalla(clase, conn) ==
    /\ pc \in {"consulta", "info"}
    /\ error' = ErrorDe(modo, clase, pc)
    /\ connection' = conn
    /\ pc' = "finally"
    /\ UNCHANGED <<valores_referencia, tabla, no_numericas, modo, campo,
                   valor, df, info, resultado, anterior,
                   clasif_vars, resumen_vars>>

\* df = pd.read_sql(query, ...), then the `if df.empty` return.
LeerDatos ==
    /\ pc = "consulta" /\ modo \in Modos
    /\ LET frame == Seleccionar(Donde(tabla, campo, valor), ColumnasDe(modo))
       IN  /\ df' = frame
           /\ IF frame = <<>>
              THEN /\ resultado' = SinDatos(modo, campo, valor)
                   /\ pc' = "finally"
              ELSE /\ resultado' = resultado
                   /\ pc' = "info"
    /\ UNCHANGED <<valores_referencia, tabla, no_numericas, modo, campo,
                   valor, connection, info, error, anterior,
                   clasif_vars, resumen_vars>>

\* info_df = pd.read_sql(info_query, ...): LIMIT 1 with no ORDER BY returns
\* any one of the matching rows.
LeerInfo ==
    /\ pc = "info"
    /\ \E i \in 1..Len(Donde(tabla, campo, valor)) :
          LET fila == Donde(tabla, campo, valor)[i]
          IN  info' = [municipio_id_FK |-> fila.municipio_id_FK,
                       municipio |-> fila.municipio]
    /\ pc' = "calcular"
    /\ UNCHANGED <<valores_referencia, tabla, no_numericas, modo, campo,
                   valor, connection, df, resultado, error, anterior,
                   clasif_vars, resumen_vars>>

\* The per-column loop and the construction of `resultado`; an exception
\* leaving the loop reaches the outer `except Exception`.
Calcular ==
    /\ pc = "calcular"
    /\ IF \E c \in Rango_de(ColumnasDe(modo)) :
             HojaDe(modo, df, c, no_numericas).propaga
       THEN /\ error' = ErrorInforme("Exception", "calculo")
            /\ resultado' = resultado
       ELSE /\ resultado' = Informe(modo, df, info, no_numericas)
            /\ error' = error
    /\ pc' = "finally"
    /\ UNCHANGED <<valores_referencia, tabla, no_numericas, modo, campo,
                   valor, connection, df, info, anterior,
                   clasif_vars, resumen_vars>>

\* municipios_df = pd.read_sql(query_municipios, ...) and the listing loop.
LeerMunicipios ==
    /\ pc = "consulta" /\ modo = "catalogo"
    /\ \E listado \in Listados(tabla) : resultado' = Catalogo(listado)
    /\ pc' = "finally"
    /\ UNCHANGED <<valores_referencia, tabla, no_numericas, modo, campo,
                   valor, connection, df, info, error, anterior,
                   clasif_vars, resumen_vars>>

\* The finally block; the handler then returns or raises.
Finally ==
    /\ pc = "finally"
    /\ connection' = Liberar(connection)
    /\ pc' = "done"
    /\ UNCHANGED <<valores_referencia, tabla, no_numericas, modo, campo,
                   valor, df, info, resultado, error, anterior,
                   clasif_vars, resumen_vars>>

\* What is remembered of an answered request: a report obtained by id.
Recordar(m, c, v, res, err) ==
    IF m \in Modos /\ c = "municipio_id_FK" /\ err = None
          /\ "total_registros" \in DOMAIN res
    THEN [modo |-> m, valor |-> v, resultado |-> res]
    ELSE None

\* The response is sent; the request's local variables are discarded.
\* `recuerdo` is what the history variable keeps of the request.
Terminar(recuerdo) ==
    /\ pc = "done"
    /\ anterior' = recuerdo
    /\ pc' = "idle" /\ modo' = "ninguno" /\ campo' = "ninguno"
    /\ valor' = None /\ connection' = "None" /\ df' = <<>> /\ info' = None
    /\ resultado' = None /\ error' = None
    /\ UNCHANGED <<valores_referencia, tabla, no_numericas,
                   clasif_vars, resumen_vars>>

Init ==
    /\ valores_referencia = VALORES_REFERENCIA
    /\ tabla \in Tablas
    /\ no_numericas \in Corrupciones
    /\ Reposo
    /\ anterior = None
    /\ cl_parametro = None /\ cl_valor = None /\ cl_resultado = None
    /\ serie = <<>> /\ resumen = None

Pasos ==
    \/ \E m \in Modos :
          \/ \E i \in Ids : IniciarInforme(m, "municipio_id_FK", i)
          \/ \E n \in Rango_de(Nombres) : IniciarInforme(m, "municipio", n)
    \/ IniciarCatalogo
    \/ Conectar
    \/ ConectarFalla
    \/ \E clase \in Clases, conn \in {"abierta", "perdida"} :
          ConsultaFalla(clase, conn)
    \/ LeerDatos
    \/ LeerInfo
    \/ Calcular
    \/ LeerMunicipios
    \/ Finally

Next == Pasos \/ Terminar(None)

\* The service serving requests one after another.
Spec == Init /\ [][Next]_vars

NextHistoria ==
    Pasos \/ Terminar(Recordar(modo, campo, valor, resultado, error))

\* The same service, with the last report obtained by id remembered in
\* `anterior` so that two consecutive answers can be compared.
SpecHistoria == Init /\ [][NextHistoria]_vars

---------------------------------------------------------------------------
\* The classifier applied to chosen inputs.

Umbrales ==
    UNION {{VALORES_REFERENCIA[p].bajo.max, VALORES_REFERENCIA[p].medio.min,
            VALORES_REFERENCIA[p].medio.max, VALORES_REFERENCIA[p].alto.min} :
           p \in DOMAIN VALORES_REFERENCIA}

ValoresPrueba ==
    {Real(t + d, 1) : t \in Umbrales \cup {650, 720}, d \in {-1, 0, 1}}
        \cup {Real(2 * t + 1, 2) : t \in Umbrales}

ParametrosPrueba == DOMAIN VALORES_REFERENCIA \cup {"arcilla"}

InitClasificar ==
    /\ valores_referencia = VALORES_REFERENCIA
    /\ tabla = <<>> /\ no_numericas = {} /\ Reposo /\ anterior = None
    /\ cl_parametro \in ParametrosPrueba
    /\ cl_valor \in ValoresPrueba
    /\ cl_resultado = None
    /\ serie = <<>> /\ resumen = None

Clasificar ==
    /\ cl_resultado = None
    /\ cl_resultado' = interpretar_valor(cl_parametro, cl_valor)
    /\ UNCHANGED <<valores_referencia, peticion_vars, cl_parametro, cl_valor,
                   resumen_vars>>

NextClasificar == Clasificar

SpecClasificar == InitClasificar /\ [][NextClasificar]_vars

---------------------------------------------------------------------------
\* The statistics leaf computed for chosen columns.

MaxSerie == 4

Celdas == {NULL} \cup {Celda(v) : v \in {100, 200, 300, 400}}
Series == UNION {[1..n -> Celdas] : n \in 0..MaxSerie}

InitResumen ==
    /\ valores_referencia = VALORES_REFERENCIA
    /\ tabla = <<>> /\ no_numericas = {} /\ Reposo /\ anterior = None
    /\ cl_parametro = None /\ cl_valor = None /\ cl_resultado = None
    /\ serie \in Series
    /\ resumen = None

Resumir ==
    /\ resumen = None
    /\ resumen' = EstadisticasDeColumna(serie, FALSE).hoja
    /\ UNCHANGED <<valores_referencia, peticion_vars, clasif_vars, serie>>

NextResumen == Resumir

SpecResumen == InitResumen /\ [][NextResumen]_vars

---------------------------------------------------------------------------
\* Properties.

\* x < t, x <= t for a float x and a threshold t in hundredths.
Menor(x, t) == x.num < t * x.den
NoMayor(x, t) == x.num <= t * x.den

\* C1: interpretar_valor returns the label fixed by testing, in this order:
\* no table entry -> sin_referencia; value <= bajo.max -> BAJO; value >=
\* alto.min -> ALTO; medio.min <= value <= medio.max -> MEDIO; otherwise
\* FUERA DE RANGO.  For ph, 5.5, 6.5, 7.5 and 7.2 give BAJO, MEDIO, ALTO
\* and FUERA DE RANGO.
ClasificacionEnOrden ==
    cl_resultado # None =>
        LET p == cl_parametro
            v == cl_valor
            et == cl_resultado.interpretacion
        IN  /\ cl_resultado.valor = v
            /\ IF p \notin DOMAIN VALORES_REFERENCIA
               THEN cl_resultado.nivel = "sin_referencia"
               ELSE LET ref == VALORES_REFERENCIA[p]
                        esBajo == NoMayor(v, ref.bajo.max)
                        esAlto == ~Menor(v, ref.alto.min)
                        esMedio == /\ ~Menor(v, ref.medio.min)
                                   /\ NoMayor(v, ref.medio.max)
                    IN  /\ esBajo => et = "BAJO"
                        /\ (~esBajo /\ esAlto) => et = "ALTO"
                        /\ (~esBajo /\ ~esAlto /\ esMedio) => et = "MEDIO"
                        /\ (~esBajo /\ ~esAlto /\ ~esMedio)
                              => et = "FUERA DE RANGO"
            /\ (p = "ph" /\ v = Real(550, 1)) => et = "BAJO"
            /\ (p = "ph" /\ v = Real(650, 1)) => et = "MEDIO"
            /\ (p = "ph" /\ v = Real(750, 1)) => et = "ALTO"
            /\ (p = "ph" /\ v = Real(720, 1)) => et = "FUERA DE RANGO"

\* A value exactly at bajo.max that also passes the medio test (mo = 2.0)
\* has been classified BAJO.
ClasificadoEnElLimite ==
    /\ cl_resultado # None
    /\ cl_parametro = "mo" /\ cl_valor = Real(200, 1)
    /\ cl_resultado.interpretacion = "BAJO"

\* C2: no request of the three handlers ends holding an open connection,
\* whichever way it ends.
ConexionLiberada == pc = "done" => connection # "abierta"

\* A request that failed in its second query, after the connection was
\* opened, has ended with the connection closed.
CerradaTrasError ==
    /\ pc = "done" /\ connection = "cerrada"
    /\ error # None /\ error.causa = "info"

HayMuestra(frame, c) == \E i \in 1..Len(frame) : frame[i][c] # NULL

\* C3: when computing one parameter's leaf fails, the request still returns
\* a report with a leaf for every requested parameter: an 'error' leaf for
\* the failing one, and for every other the leaf it would have had with no
\* failure at all.
FalloAislado ==
    (pc = "done" /\ modo \in Modos /\ info # None) =>
        /\ error = None
        /\ ClaveHojas(modo) \in DOMAIN resultado
        /\ LET hojas == resultado[ClaveHojas(modo)]
           IN  \A c \in Rango_de(ColumnasDe(modo)) :
                  /\ c \in DOMAIN hojas
                  /\ IF c \in no_numericas /\ HayMuestra(df, c)
                     THEN /\ "error" \in DOMAIN hojas[c]
                          /\ DOMAIN hojas[c] \subseteq {"error", "mediana"}
                     ELSE /\ "error" \notin DOMAIN hojas[c]
                          /\ hojas[c] = HojaDe(modo, df, c, {}).hoja

\* A statistics report has been returned with an error leaf for mo and a
\* computed leaf for ph.
InformeConHojaFallida ==
    /\ pc = "done" /\ modo = "estadisticas" /\ info # None /\ error = None
    /\ "error" \in DOMAIN resultado.estadisticas["mo"]
    /\ "moda" \in DOMAIN resultado.estadisticas["ph"]

\* Number of the table's rows the request's filter matches.
FilasDelFiltro ==
    {i \in 1..Len(tabla) :
        IF campo = "municipio_id_FK" THEN tabla[i].municipio_id_FK = valor
        ELSE tabla[i].municipio = valor}

FalloDeBase == error # None /\ error.causa \in {"conexion", "consulta", "info"}

\* C4: when the filter matches no row and the database works, the report
\* functions return a 'no data' result, not an error, holding only the
\* identity field the caller supplied and an empty per-parameter mapping.
SinDatosSoloIdentificador ==
    (pc = "done" /\ modo \in Modos /\ FilasDelFiltro = {} /\ ~FalloDeBase) =>
        /\ error = None
        /\ resultado # None
        /\ LET clave == IF campo = "municipio_id_FK" THEN "municipio_id"
                        ELSE "municipio_nombre"
           IN  /\ DOMAIN resultado = {clave, "mensaje", ClaveHojas(modo)}
               /\ resultado[clave] = valor
               /\ DOMAIN resultado[ClaveHojas(modo)] = {}

\* A lookup by a name no row carries, in a non-empty table, has been
\* answered with the 'no data' result.
SinDatosPorNombre ==
    /\ pc = "done" /\ modo \in Modos /\ campo = "municipio"
    /\ tabla # <<>> /\ FilasDelFiltro = {}
    /\ resultado # None /\ "mensaje" \in DOMAIN resultado

\* C5: a report requested by id and then by the name it returned gives the
\* same answer both times: identity pair, total_registros and leaves.
IdaYVuelta ==
    (/\ pc = "done" /\ modo \in Modos /\ campo = "municipio"
     /\ error = None /\ anterior # None
     /\ anterior.modo = modo
     /\ valor = anterior.resultado.municipio_nombre)
        => resultado = anterior.resultado

SinRepetidos(datos) ==
    \A i, j \in 1..Len(datos) : i # j => datos[i] # datos[j]

\* C6: when no valid sample repeats, moda is the first valid sample in the
\* original order: 1 for [1,2,3], 3 for [3,1,2].
ModaSinRepeticion ==
    (resumen # None /\ dropna(serie) # <<>> /\ SinRepetidos(dropna(serie)))
        => /\ resumen.moda = Real(dropna(serie)[1], 1)
           /\ serie = <<Celda(100), Celda(200), Celda(300)>>
                 => resumen.moda = Real(100, 1)
           /\ serie = <<Celda(300), Celda(100), Celda(200)>>
                 => resumen.moda = Real(300, 1)

\* The series [3,1,2] has been summarised with moda 3.
ModaDeTresUnoDos ==
    /\ serie = <<Celda(300), Celda(100), Celda(200)>>
    /\ resumen # None /\ resumen.moda = Real(300, 1)

\* C7: a series with exactly one valid sample x has moda = mediana = media
\* = x, count = 1 and desviacion_estandar = 0.
UnaMuestra ==
    (resumen # None /\ Len(dropna(serie)) = 1) =>
        LET x == Real(dropna(serie)[1], 1)
        IN  /\ resumen.moda = x /\ resumen.mediana = x /\ resumen.media = x
            /\ resumen.count = 1
            /\ resumen.desviacion_estandar = Real(0, 1)

\* C8: in a report for a group with matching rows, a parameter with no
\* non-missing value gets a 'no data' leaf (mediana None in the
\* interpretation report), total_registros is the number of matched rows,
\* and a parameter's valid-sample count counts non-missing entries only.
SinMuestrasValidas ==
    (pc = "done" /\ modo \in Modos /\ FilasDelFiltro # {} /\ ~FalloDeBase) =>
        /\ error = None
        /\ resultado # None
        /\ "total_registros" \in DOMAIN resultado
        /\ resultado.total_registros = Cardinality(FilasDelFiltro)
        /\ \A c \in Rango_de(ColumnasDe(modo)) :
              LET hoja == resultado[ClaveHojas(modo)][c]
                  validas == {i \in FilasDelFiltro : tabla[i].datos[c] # NULL}
              IN  IF validas = {}
                  THEN /\ "mensaje" \in DOMAIN hoja
                       /\ IF modo = "interpretacion"
                          THEN /\ DOMAIN hoja = {"mensaje", "mediana"}
                               /\ hoja.mediana = None
                          ELSE DOMAIN hoja = {"mensaje"}
                  ELSE \/ "error" \in DOMAIN hoja
                       \/ /\ modo = "interpretacion"
                          /\ hoja.muestras_validas = Cardinality(validas)
                       \/ /\ modo = "estadisticas"
                          /\ hoja.count = Cardinality(validas)

\* An interpretation report over two matched rows has been returned with a
\* 'no data' leaf for ph and a computed leaf for k.
InformeConHojaSinDatos ==
    /\ pc = "done" /\ modo = "interpretacion" /\ error = None
    /\ Cardinality(FilasDelFiltro) = 2
    /\ resultado # None /\ "total_registros" \in DOMAIN resultado
    /\ "mensaje" \in DOMAIN resultado.interpretaciones["ph"]
    /\ "muestras_validas" \in DOMAIN resultado.interpretaciones["k"]

\* C9: every entry of the reference table has bajo.max <= medio.min <=
\* medio.max <= alto.min, and the table keeps its 14 entries and their
\* thresholds in every state.
TablaReferenciaFija ==
    /\ valores_referencia = VALORES_REFERENCIA
    /\ DOMAIN valores_referencia = Rango_de(columnas_interpretacion)
    /\ Cardinality(DOMAIN valores_referencia) = 14
    /\ \A p \in DOMAIN valores_referencia :
          LET ref == valores_referencia[p]
          IN  /\ ref.bajo.max <= ref.medio.min
              /\ ref.medio.min <= ref.medio.max
              /\ ref.medio.max <= ref.alto.min

\* An interpretation report has been computed from the table.
InformeInterpretado ==
    /\ pc = "done" /\ modo = "interpretacion" /\ error = None /\ info # None
    /\ resultado.interpretaciones["ph"].mediana = Real(720, 1)
    /\ resultado.interpretaciones["ph"].interpretacion = "FUERA DE RANGO"

MasFrecuentes(datos) ==
    {x \in Rango_de(datos) :
        \A y \in Rango_de(datos) : Cuenta(datos, y) <= Cuenta(datos, x)}

PrimeraAparicion(datos, x) ==
    CHOOSE i \in 1..Len(datos) :
        datos[i] = x /\ \A j \in 1..(i - 1) : datos[j] # x

\* C10 as stated: moda is a value with the highest count and, among the
\* values sharing it, the one that occurs first in the original order.
ModaPrimeraAparicion ==
    (resumen # None /\ dropna(serie) # <<>>) =>
        LET datos == dropna(serie)
        IN  \E x \in MasFrecuentes(datos) :
               /\ resumen.moda = Real(x, 1)
               /\ \A y \in MasFrecuentes(datos) :
                     PrimeraAparicion(datos, x) <= PrimeraAparicion(datos, y)

\* C10 amended: moda is a value with the highest count; when that count is
\* above 1 it is the smallest of the values sharing it, and when no value
\* repeats it is the first valid sample in the original order.
ModaMenorEnEmpate ==
    (resumen # None /\ dropna(serie) # <<>>) =>
        LET datos == dropna(serie)
        IN  \E x \in MasFrecuentes(datos) :
               /\ resumen.moda = Real(x, 1)
               /\ IF Cuenta(datos, x) > 1
                  THEN \A y \in MasFrecuentes(datos) : x <= y
                  ELSE x = datos[1]

\* The series [3,3,1,1] has been summarised with moda 1.
ModaDeEmpate ==
    /\ serie = <<Celda(300), Celda(300), Celda(100), Celda(100)>>
    /\ resumen # None /\ resumen.moda = Real(100, 1)

===========================================================================
